---- MODULE Spec2Model ----
(***************************************************************************)
(* The TTL-LRU cache of weatherCachingAPI (simulatedForecasting/main.go    *)
(* and its realtimeForecasting twin): the map cache.data, the              *)
(* container/list cache.orderedList, the RWMutex cache.mu, and the HTTP    *)
(* handlers that call getCachedWeatherData and updateCache.                *)
(*                                                                         *)
(* Time is counted in clock ticks; a tick stands for 15 minutes, so the    *)
(* 30 minute expiry is 2 ticks (the serialized calls are explored tick by  *)
(* tick, the concurrent handlers with the clock advancing by the expiry).  *)
(* The code reads a CacheTime only through                                 *)
(* time.Since(CacheTime) < expiry, so a CacheTime is kept as its age, the  *)
(* ticks since it was stamped, and an age stops counting at expiry: the    *)
(* clock itself is unbounded.  A list element (a list.Element) is a        *)
(* record [id, city, data]: id is its identity (its address), city and     *)
(* data are the fields of the *cacheItem it holds, which the code never    *)
(* changes after creating it.  Of CityWeatherData the model keeps City and *)
(* CacheTime; Temp and Desc are payload that the cache never reads.        *)
(* net/http runs every request in a goroutine of its own; NumProcs of them  *)
(* run at a time, and a goroutine that has returned makes room for the     *)
(* next request, MaxReqs requests in all.                                  *)
(***************************************************************************)
EXTENDS Integers, Sequences, FiniteSets, TLC

\* ---------------------------------------------------------------- bounds
NumCities == 3
MaxCap == 3
NumProcs == 2
NumKeys == 2

Cities == 1..NumCities
Procs == 1..NumProcs
EmptyCity == 0

\* the cities that requests ask for
Keys == 1..NumKeys

\* the requests with a city that arrive: one more than can run at a time
MaxReqs == NumProcs + 1

\* cache.expiry, 30 * time.Minute, in ticks of 15 minutes
expiry == 2

VARIABLES
  data,         \* cache.data: city -> element
  orderedList,  \* cache.orderedList: elements, front first
  maxSize,      \* cache.maxSize, fixed at construction
  mu,           \* cache.mu: [readers: set of handlers, writer: handler or 0]
  pc,           \* per handler: the statement it is at
  city,         \* per handler: the city query parameter
  elem,         \* per handler: the local elem of getCachedWeatherData
  found,        \* per handler: the bool returned by getCachedWeatherData
  cached,       \* per handler: the data returned by getCachedWeatherData
  newData,      \* per handler: the data returned by getCityWeatherData
  reqs,         \* the requests with a city accepted so far
  ret,          \* serialized caller: the last call, what it returned (the data with
                \* the age it had then), and whether a Lookup's city was in the map
                \* when the call began (had)
  touched,      \* history: cities by their last Lookup hit or Insert, latest first
  run,          \* history: the cities inserted so far, while the only calls that found
                \* or changed an entry were Inserts of distinct cities
  latest        \* serialized caller: city -> the age of the data of its latest Insert,
                \* for the cities whose latest entry was not evicted as the back
                \* element and has not reached the expiry

cacheVars == <<data, orderedList, maxSize>>
procVars == <<mu, pc, city, elem, found, cached, newData, reqs>>
histVars == <<ret, touched, run, latest>>
vars == <<data, orderedList, maxSize, mu, pc, city, elem, found, cached,
          newData, reqs, ret, touched, run, latest>>

\* ------------------------------------------------------ values and helpers
\* CityWeatherData{}: the zero value, its CacheTime the zero time
ZeroData == [City |-> EmptyCity, age |-> expiry]

\* a nil *list.Element
NoElem == [id |-> 0, city |-> EmptyCity, data |-> ZeroData]

\* CityWeatherData{City: city, ..., CacheTime: t}, t being a ticks ago
CityWeatherData(c, a) == [City |-> c, age |-> a]

\* &cacheItem{city: city, data: data} inside a fresh list element
cacheItem(id, c, d) == [id |-> id, city |-> c, data |-> d]

Range(s) == {s[i] : i \in 1..Len(s)}

Ids(l) == {l[i].id : i \in 1..Len(l)}

\* the address of a new allocation: one no live element has
NewId(live) == CHOOSE n \in 1..(Cardinality(live) + 1) : n \notin live

\* ------------------------------------------------- container/list and map
\* e.list == l
InList(l, e) == e.id \in Ids(l)

\* l.Back(): the last element, nil for an empty list
Back(l) == IF Len(l) = 0 THEN NoElem ELSE l[Len(l)]

\* l.Remove(e): unlinks e if it is an element of l
Remove(l, e) == SelectSeq(l, LAMBDA x : x.id # e.id)

\* l.PushFront(v)
PushFront(l, e) == <<e>> \o l

\* l.MoveToFront(e): nothing if e is not in l or already at the front
MoveToFront(l, e) ==
  IF ~InList(l, e) \/ l[1].id = e.id THEN l ELSE <<e>> \o Remove(l, e)

\* delete(m, k)
MapDelete(m, k) == [x \in (DOMAIN m) \ {k} |-> m[x]]

\* m[k] = v
MapPut(m, k, v) == [x \in (DOMAIN m) \cup {k} |-> IF x = k THEN v ELSE m[x]]

Cache(d, l) == [data |-> d, orderedList |-> l]

\* Addresses carry no meaning beyond identity: after each step the heap is
\* renumbered so that the i-th element of the list has address i, and the
\* elements that only the map or a local still points to follow in address order.
Renumber(d, l, loc) ==
  LET off == {d[k].id : k \in DOMAIN d} \cup {loc[p].id : p \in DOMAIN loc}
      dangling == off \ (Ids(l) \cup {0})
      addr(id) == IF id = 0 THEN 0
                  ELSE IF id \in Ids(l) THEN CHOOSE i \in 1..Len(l) : l[i].id = id
                  ELSE Len(l) + Cardinality({x \in dangling : x <= id})
      at(e) == [e EXCEPT !.id = addr(e.id)]
  IN [data |-> [k \in DOMAIN d |-> at(d[k])],
      orderedList |-> [i \in 1..Len(l) |-> at(l[i])],
      elem |-> [p \in DOMAIN loc |-> at(loc[p])]]

\* -------------------------------------------------------- the cache code
\* the comparison taken as <=: an entry aged exactly expiry still counts as fresh
FreshInclusive(d) == d.age <= expiry

\* time.Since(item.data.CacheTime) < cache.expiry
Fresh(d) == d.age < expiry

\* the comparison taken as >: the list is let grow one past maxSize
AtMaxSizeStrict(l, m) == Len(l) > m

\* the comparison off by one the other way: eviction starts one entry early
AtMaxSizeEarly(l, m) == Len(l) + 1 >= m

\* cache.orderedList.Len() >= cache.maxSize
AtMaxSize(l, m) == Len(l) >= m

\* Front() taken for Back(): the most recently used element is evicted
evictNewest(c) ==
  LET newest == IF Len(c.orderedList) = 0 THEN NoElem ELSE c.orderedList[1]
  IN IF newest # NoElem
       THEN Cache(MapDelete(c.data, newest.city), Remove(c.orderedList, newest))
       ELSE c

\* evictOldest(): drop the back element and the map entry of its city
evictOldest(c) ==
  LET oldest == Back(c.orderedList)
  IN IF oldest # NoElem
       THEN Cache(MapDelete(c.data, oldest.city), Remove(c.orderedList, oldest))
       ELSE c

\* updateCache(city, data) between Lock and Unlock; id is the new element's address
updateCache(c, m, k, d, id) ==
  LET c1 == IF AtMaxSize(c.orderedList, m) THEN evictOldest(c) ELSE c
      e == cacheItem(id, k, d)
  IN Cache(MapPut(c1.data, k, e), PushFront(c1.orderedList, e))

\* the miss of an absent city also makes room for the entry to come
getCachedWeatherDataEvicting(c, k) ==
  IF k \notin DOMAIN c.data
    THEN [cache |-> evictOldest(c), data |-> ZeroData, found |-> FALSE]
    ELSE LET e == c.data[k]
             moved == MoveToFront(c.orderedList, e)
         IN IF Fresh(e.data)
              THEN [cache |-> Cache(c.data, moved), data |-> e.data, found |-> TRUE]
              ELSE [cache |-> Cache(MapDelete(c.data, k), Remove(moved, e)),
                    data |-> ZeroData, found |-> FALSE]

\* getCachedWeatherData(city) between RLock and RUnlock, run without interleaving
getCachedWeatherData(c, k) ==
  IF k \notin DOMAIN c.data
    THEN [cache |-> c, data |-> ZeroData, found |-> FALSE]
    ELSE LET e == c.data[k]
             moved == MoveToFront(c.orderedList, e)
         IN IF Fresh(e.data)
              THEN [cache |-> Cache(c.data, moved), data |-> e.data, found |-> TRUE]
              ELSE [cache |-> Cache(MapDelete(c.data, k), Remove(moved, e)),
                    data |-> ZeroData, found |-> FALSE]

\* ------------------------------------------------------------------ Init
Init ==
  /\ data = <<>>
  /\ orderedList = <<>>
  /\ maxSize \in 0..MaxCap
  /\ mu = [readers |-> {}, writer |-> 0]
  /\ pc = [p \in Procs |-> "idle"]
  /\ city = [p \in Procs |-> EmptyCity]
  /\ elem = [p \in Procs |-> NoElem]
  /\ found = [p \in Procs |-> FALSE]
  /\ cached = [p \in Procs |-> ZeroData]
  /\ newData = [p \in Procs |-> ZeroData]
  /\ reqs = 0
  /\ ret = [op |-> "none", data |-> ZeroData, found |-> FALSE,
            had |-> FALSE]
  /\ touched = <<>>
  /\ run = [ok |-> TRUE, keys |-> <<>>]
  /\ latest = <<>>

\* the clock advances by a tick: every CacheTime there is lies a tick further back
Older(d) == [d EXCEPT !.age = IF @ < expiry THEN @ + 1 ELSE @]

OlderElem(e) == [e EXCEPT !.data = Older(@)]

Tick ==
  /\ data' = [k \in DOMAIN data |-> OlderElem(data[k])]
  /\ orderedList' = [i \in 1..Len(orderedList) |-> OlderElem(orderedList[i])]
  /\ elem' = [p \in Procs |-> OlderElem(elem[p])]
  /\ cached' = [p \in Procs |-> Older(cached[p])]
  /\ newData' = [p \in Procs |-> Older(newData[p])]
  /\ latest' = [k \in {x \in DOMAIN latest : latest[x] + 1 < expiry} |-> latest[k] + 1]
  /\ UNCHANGED <<maxSize, mu, pc, city, found, reqs, ret, touched, run>>

\* the clock advances by the expiry: every CacheTime there is has expired
Expired(d) == [d EXCEPT !.age = expiry]

ExpiredElem(e) == [e EXCEPT !.data = Expired(@)]

Expire ==
  /\ data' = [k \in DOMAIN data |-> ExpiredElem(data[k])]
  /\ orderedList' = [i \in 1..Len(orderedList) |-> ExpiredElem(orderedList[i])]
  /\ elem' = [p \in Procs |-> ExpiredElem(elem[p])]
  /\ cached' = [p \in Procs |-> Expired(cached[p])]
  /\ newData' = [p \in Procs |-> Expired(newData[p])]
  /\ UNCHANGED <<maxSize, mu, pc, city, found, reqs, histVars>>

\* ------------------------------------- serialized calls of the two operations
\* k is touched now; the cities that are no longer cached are forgotten
Touch(s, k, d) == SelectSeq(<<k>> \o SelectSeq(s, LAMBDA x : x # k), LAMBDA x : x \in DOMAIN d)

\* the run of distinct Inserts goes on with k, or ends
Ran(r, k, m) ==
  IF r.ok /\ k \notin Range(r.keys) /\ Len(r.keys) <= m
    THEN [ok |-> TRUE, keys |-> Append(r.keys, k)]
    ELSE [ok |-> FALSE, keys |-> <<>>]

\* the cities whose entry an Insert evicts as the back element of the list
TailEvicted ==
  {x \in DOMAIN data : AtMaxSize(orderedList, maxSize) /\ Back(orderedList) = data[x]}

\* k is written now, with data of this moment
Written(w, k) ==
  [x \in ((DOMAIN w) \ TailEvicted) \cup {k} |-> IF x = k THEN 0 ELSE w[x]]

\* a call getCachedWeatherData(k) that runs alone
Lookup(k) ==
  \E r \in {getCachedWeatherData(Cache(data, orderedList), k)} :
  \E h \in {Renumber(r.cache.data, r.cache.orderedList, elem)} :
     /\ data' = h.data
     /\ orderedList' = h.orderedList
     /\ ret' = [op |-> "Lookup", data |-> r.data, found |-> r.found,
                had |-> k \in DOMAIN data]
     /\ touched' = IF r.found THEN Touch(touched, k, h.data)
                              ELSE SelectSeq(touched, LAMBDA x : x \in DOMAIN h.data)
     /\ run' = [ok |-> FALSE, keys |-> <<>>]
     /\ UNCHANGED <<maxSize, procVars, latest>>

\* the handler's miss path run alone: getCityWeatherData(k), whose result
\* carries the CacheTime of this moment, and then updateCache(k, weatherData)
Insert(k) ==
  \E c \in {updateCache(Cache(data, orderedList), maxSize, k,
                       CityWeatherData(k, 0), NewId(Ids(orderedList)))} :
  \E h \in {Renumber(c.data, c.orderedList, elem)} :
     /\ data' = h.data
     /\ orderedList' = h.orderedList
     /\ ret' = [op |-> "Insert", data |-> ZeroData, found |-> FALSE, had |-> FALSE]
     /\ touched' = Touch(touched, k, h.data)
     /\ run' = Ran(run, k, maxSize)
     /\ latest' = Written(latest, k)
     /\ UNCHANGED <<maxSize, procVars>>

SeqNext ==
  \/ Tick
  \/ \E k \in Cities : Lookup(k)
  \/ \E k \in Cities : Insert(k)

SeqSpec == Init /\ [][SeqNext]_vars

\* ------------------------------------------------- the concurrent handlers
\* what a handler's goroutine keeps alive: the list, the map and the locals
Live == Ids(orderedList) \cup {data[k].id : k \in DOMAIN data}
          \cup {elem[p].id : p \in Procs}

\* a writer that has called Lock and waits for the readers to leave
WriterWaiting == \E q \in Procs : pc[q] = "wwait"

\* weatherHandler: city := r.URL.Query().Get("city"); an empty city is answered
\* with a 400 at once
Request(p, c) ==
  /\ pc[p] = "idle"
  /\ reqs < MaxReqs
  /\ IF c = EmptyCity
       THEN UNCHANGED <<pc, city, reqs>>
       ELSE /\ reqs' = reqs + 1
            /\ city' = [city EXCEPT ![p] = c]
            /\ pc' = [pc EXCEPT ![p] = "rlock"]
  /\ UNCHANGED <<cacheVars, mu, elem, found, cached, newData, histVars>>

\* cache.mu.RLock(): shared with other readers, excluded by a writer
RLock(p) ==
  /\ pc[p] = "rlock"
  /\ mu.writer = 0
  /\ ~WriterWaiting
  /\ mu' = [mu EXCEPT !.readers = @ \cup {p}]
  /\ pc' = [pc EXCEPT ![p] = "read"]
  /\ UNCHANGED <<cacheVars, city, elem, found, cached, newData, reqs, histVars>>

\* elem, exists := cache.data[city]; if !exists { return CityWeatherData{}, false }
Read(p) ==
  /\ pc[p] = "read"
  /\ IF city[p] \in DOMAIN data
       THEN /\ elem' = [elem EXCEPT ![p] = data[city[p]]]
            /\ pc' = [pc EXCEPT ![p] = "move"]
            /\ run' = [ok |-> FALSE, keys |-> <<>>]
            /\ UNCHANGED <<found, cached>>
       ELSE /\ found' = [found EXCEPT ![p] = FALSE]
            /\ cached' = [cached EXCEPT ![p] = ZeroData]
            /\ pc' = [pc EXCEPT ![p] = "runlock"]
            /\ UNCHANGED <<elem, run>>
  /\ UNCHANGED <<cacheVars, mu, city, newData, reqs, ret, touched, latest>>

\* cache.orderedList.MoveToFront(elem)
Move(p) ==
  /\ pc[p] = "move"
  /\ \E h \in {Renumber(data, MoveToFront(orderedList, elem[p]), elem)} :
       data' = h.data /\ orderedList' = h.orderedList /\ elem' = h.elem
  /\ pc' = [pc EXCEPT ![p] = "check"]
  /\ UNCHANGED <<maxSize, mu, city, found, cached, newData, reqs, histVars>>

\* if time.Since(item.data.CacheTime) < cache.expiry { return item.data, true }
Check(p) ==
  /\ pc[p] = "check"
  /\ IF Fresh(elem[p].data)
       THEN /\ found' = [found EXCEPT ![p] = TRUE]
            /\ cached' = [cached EXCEPT ![p] = elem[p].data]
            /\ pc' = [pc EXCEPT ![p] = "runlock"]
       ELSE /\ pc' = [pc EXCEPT ![p] = "remove"]
            /\ UNCHANGED <<found, cached>>
  /\ UNCHANGED <<cacheVars, mu, city, elem, newData, reqs, histVars>>

\* cache.orderedList.Remove(elem)
RemoveExpired(p) ==
  /\ pc[p] = "remove"
  /\ \E h \in {Renumber(data, Remove(orderedList, elem[p]), elem)} :
       data' = h.data /\ orderedList' = h.orderedList /\ elem' = h.elem
  /\ pc' = [pc EXCEPT ![p] = "delete"]
  /\ UNCHANGED <<maxSize, mu, city, found, cached, newData, reqs, histVars>>

\* delete(cache.data, city); return CityWeatherData{}, false
DeleteExpired(p) ==
  /\ pc[p] = "delete"
  /\ \E h \in {Renumber(MapDelete(data, city[p]), orderedList, elem)} :
       data' = h.data /\ orderedList' = h.orderedList /\ elem' = h.elem
  /\ found' = [found EXCEPT ![p] = FALSE]
  /\ cached' = [cached EXCEPT ![p] = ZeroData]
  /\ pc' = [pc EXCEPT ![p] = "runlock"]
  /\ UNCHANGED <<maxSize, mu, city, newData, reqs, histVars>>

\* the read lock kept over the handler's next steps: RUnlock left out
RUnlockLeftOut(p) ==
  /\ pc[p] = "runlock"
  /\ pc' = [pc EXCEPT ![p] = IF found[p] THEN "idle" ELSE "fetch"]
  /\ city' = IF found[p] THEN [city EXCEPT ![p] = EmptyCity] ELSE city
  /\ found' = [found EXCEPT ![p] = FALSE]
  /\ cached' = [cached EXCEPT ![p] = ZeroData]
  /\ UNCHANGED <<cacheVars, mu, elem, newData, reqs, histVars>>

\* the handler without its if found { ... return }: it fetches after a hit too
RUnlockThenFetch(p) ==
  /\ pc[p] = "runlock"
  /\ mu' = [mu EXCEPT !.readers = @ \ {p}]
  /\ \E h \in {Renumber(data, orderedList, [elem EXCEPT ![p] = NoElem])} :
       data' = h.data /\ orderedList' = h.orderedList /\ elem' = h.elem
  /\ pc' = [pc EXCEPT ![p] = "fetch"]
  /\ found' = [found EXCEPT ![p] = FALSE]
  /\ cached' = [cached EXCEPT ![p] = ZeroData]
  /\ UNCHANGED <<maxSize, city, newData, reqs, histVars>>

\* defer cache.mu.RUnlock(), then the handler's if found { ... return }: on a hit
\* it writes cachedWeatherData and returns, its locals are gone
RUnlock(p) ==
  /\ pc[p] = "runlock"
  /\ mu' = [mu EXCEPT !.readers = @ \ {p}]
  /\ \E h \in {Renumber(data, orderedList, [elem EXCEPT ![p] = NoElem])} :
       data' = h.data /\ orderedList' = h.orderedList /\ elem' = h.elem
  /\ pc' = [pc EXCEPT ![p] = IF found[p] THEN "idle" ELSE "fetch"]
  /\ city' = IF found[p] THEN [city EXCEPT ![p] = EmptyCity] ELSE city
  /\ found' = [found EXCEPT ![p] = FALSE]
  /\ cached' = [cached EXCEPT ![p] = ZeroData]
  /\ UNCHANGED <<maxSize, newData, reqs, histVars>>

\* newData := getCityWeatherData(city): the data, stamped time.Now()
Fetch(p) ==
  /\ pc[p] = "fetch"
  /\ newData' = [newData EXCEPT ![p] = CityWeatherData(city[p], 0)]
  /\ pc' = [pc EXCEPT ![p] = "wlock"]
  /\ UNCHANGED <<cacheVars, mu, city, elem, found, cached, reqs, histVars>>

\* the error return left out: the handler goes on to updateCache with the zero value
FetchFailIgnored(p) ==
  /\ pc[p] = "fetch"
  /\ pc' = [pc EXCEPT ![p] = "wlock"]
  /\ UNCHANGED <<cacheVars, mu, city, elem, found, cached, newData, reqs, histVars>>

\* realtimeForecasting: getCityWeatherData returns an error, the handler writes
\* a 500 and returns
FetchFail(p) ==
  /\ pc[p] = "fetch"
  /\ pc' = [pc EXCEPT ![p] = "idle"]
  /\ city' = [city EXCEPT ![p] = EmptyCity]
  /\ UNCHANGED <<cacheVars, mu, elem, found, cached, newData, reqs, histVars>>

\* cache.mu.Lock(), first half: the writer announces itself
Lock(p) ==
  /\ pc[p] = "wlock"
  /\ mu.writer = 0
  /\ ~WriterWaiting
  /\ pc' = [pc EXCEPT ![p] = "wwait"]
  /\ UNCHANGED <<cacheVars, mu, city, elem, found, cached, newData, reqs, histVars>>

\* cache.mu.Lock(), second half: it enters once the readers have left
LockAcquire(p) ==
  /\ pc[p] = "wwait"
  /\ mu.readers = {}
  /\ mu' = [mu EXCEPT !.writer = p]
  /\ pc' = [pc EXCEPT ![p] = "update"]
  /\ UNCHANGED <<cacheVars, city, elem, found, cached, newData, reqs, histVars>>

\* the body of updateCache(city, newData)
Update(p) ==
  /\ pc[p] = "update"
  /\ \E c \in {updateCache(Cache(data, orderedList), maxSize, city[p], newData[p],
                           NewId(Live))} :
     \E h \in {Renumber(c.data, c.orderedList, elem)} :
     /\ data' = h.data /\ orderedList' = h.orderedList /\ elem' = h.elem
     /\ pc' = [pc EXCEPT ![p] = "wunlock"]
     /\ run' = Ran(run, city[p], maxSize)
     /\ UNCHANGED <<maxSize, mu, city, found, cached, newData, reqs, ret, touched, latest>>

\* defer cache.mu.Unlock(), then the handler writes newData and returns
Unlock(p) ==
  /\ pc[p] = "wunlock"
  /\ mu' = [mu EXCEPT !.writer = 0]
  /\ pc' = [pc EXCEPT ![p] = "idle"]
  /\ city' = [city EXCEPT ![p] = EmptyCity]
  /\ newData' = [newData EXCEPT ![p] = ZeroData]
  /\ UNCHANGED <<cacheVars, elem, found, cached, reqs, histVars>>

\* The map is not safe for concurrent use: while one goroutine is in
\* delete(cache.data, city), a map read or delete by another goroutine is a data
\* race.  The Go runtime checks for it in the map code and, when it sees it,
\* ends the process ("fatal error: concurrent map read and map write" or
\* "concurrent map writes"); when it does not see it, the statements take effect
\* one after the other.
MapRace ==
  \E p, q \in Procs :
    p # q /\ pc[p] = "delete" /\ pc[q] \in {"read", "delete"}

\* the fatal error: every goroutine is gone, no request is answered
Crash ==
  /\ MapRace
  /\ pc' = [p \in Procs |-> "crashed"]
  /\ mu' = [readers |-> {}, writer |-> 0]
  /\ city' = [p \in Procs |-> EmptyCity]
  /\ elem' = [p \in Procs |-> NoElem]
  /\ found' = [p \in Procs |-> FALSE]
  /\ cached' = [p \in Procs |-> ZeroData]
  /\ newData' = [p \in Procs |-> ZeroData]
  /\ UNCHANGED <<cacheVars, reqs, histVars>>

Next ==
  \/ Expire
  \/ Crash
  \/ \E p \in Procs, c \in Keys \cup {EmptyCity} : Request(p, c)
  \/ \E p \in Procs : RLock(p)
  \/ \E p \in Procs : Read(p)
  \/ \E p \in Procs : Move(p)
  \/ \E p \in Procs : Check(p)
  \/ \E p \in Procs : RemoveExpired(p)
  \/ \E p \in Procs : DeleteExpired(p)
  \/ \E p \in Procs : RUnlock(p)
  \/ \E p \in Procs : Fetch(p)
  \/ \E p \in Procs : FetchFail(p)
  \/ \E p \in Procs : Lock(p)
  \/ \E p \in Procs : LockAcquire(p)
  \/ \E p \in Procs : Update(p)
  \/ \E p \in Procs : Unlock(p)

Spec == Init /\ [][Next]_vars

\* what the scheduler and sync.RWMutex guarantee: a goroutine that can take its
\* next step inside getCachedWeatherData or updateCache takes it
LockStep(p) ==
  \/ RLock(p) \/ Read(p) \/ Move(p) \/ Check(p) \/ RemoveExpired(p)
  \/ DeleteExpired(p) \/ RUnlock(p)
  \/ Lock(p) \/ LockAcquire(p) \/ Update(p) \/ Unlock(p)

FairSpec == Spec /\ \A p \in Procs : WF_vars(LockStep(p))

\* ================================================================ properties
CitiesOf(l) == [i \in 1..Len(l) |-> l[i].city]

\* the items of the list without their addresses
ItemsOf(l) == [i \in 1..Len(l) |-> [city |-> l[i].city, data |-> l[i].data]]

Size == Cardinality(DOMAIN data)

\* C1: on a cache with maxSize >= 1, after every call neither the map nor the
\* list holds more than maxSize entries.
CapacityInvariant ==
  maxSize >= 1 => (Size <= maxSize /\ Len(orderedList) <= maxSize)

\* more distinct cities than maxSize were inserted and the cache is exactly full
CapacityWitness ==
  /\ maxSize >= 2
  /\ run.ok /\ Len(run.keys) = maxSize + 1
  /\ Size = maxSize /\ Len(orderedList) = maxSize

\* C2: every city of the map is the city of exactly one list element, and every
\* list element is the element the map holds for its city.
Bijection ==
  /\ \A k \in DOMAIN data :
       Cardinality({i \in 1..Len(orderedList) : orderedList[i].city = k}) = 1
  /\ \A i \in 1..Len(orderedList) :
       /\ orderedList[i].city \in DOMAIN data
       /\ data[orderedList[i].city] = orderedList[i]

\* C3: at no time are two handlers between the lock and the unlock of
\* getCachedWeatherData or updateCache.
InCriticalSection ==
  {p \in Procs : pc[p] \in {"read", "move", "check", "remove", "delete", "runlock",
                            "update", "wunlock"}}

MutualExclusion == Cardinality(InCriticalSection) <= 1

\* C4: a Lookup returns found exactly when its city is in the map and the age of
\* that entry is below the expiry; it then returns that entry's data, so nothing
\* aged expiry or more is ever returned.
TTLValidity ==
  [][\A k \in Cities :
       Lookup(k) =>
         /\ ret'.found <=> (k \in DOMAIN data /\ data[k].data.age < expiry)
         /\ ret'.found => (ret'.data = data[k].data /\ ret'.data.age < expiry)
         /\ ~ret'.found => ret'.data = ZeroData]_vars

\* a Lookup has just hit an entry in its last fresh tick
TTLWitness ==
  /\ ret.op = "Lookup" /\ ret.found
  /\ ret.data.age = expiry - 1

\* C5: a Lookup of a city that is in the map with an entry aged expiry or more
\* returns not-found, leaves that city in neither the map nor the list, takes
\* exactly one entry off both, and keeps the other entries in their order.
LazyExpiryRemoval ==
  [][\A k \in Cities :
       (k \in DOMAIN data /\ data[k].data.age >= expiry /\ Lookup(k)) =>
         /\ ~ret'.found
         /\ k \notin DOMAIN data'
         /\ k \notin Range(CitiesOf(orderedList'))
         /\ Cardinality(DOMAIN data') = Size - 1
         /\ Len(orderedList') = Len(orderedList) - 1
         /\ ItemsOf(orderedList') =
              ItemsOf(SelectSeq(orderedList, LAMBDA x : x.city # k))]_vars

\* C6: after maxSize+1 distinct cities were inserted into the empty cache with no
\* Lookup in between, exactly the first one is gone, the list holds the others
\* latest first, and each of them that is still fresh is found by a Lookup.
LRUOrder ==
  (maxSize >= 1 /\ run.ok /\ Len(run.keys) = maxSize + 1) =>
    /\ DOMAIN data = Range(run.keys) \ {run.keys[1]}
    /\ CitiesOf(orderedList) = [i \in 1..maxSize |-> run.keys[maxSize + 2 - i]]
    /\ \A i \in 2..(maxSize + 1) :
         LET k == run.keys[i]
             r == getCachedWeatherData(Cache(data, orderedList), k)
         IN Fresh(data[k].data) => (r.found /\ r.data = data[k].data)

\* maxSize+1 distinct cities went into the cache, and the survivors are fresh
LRUWitness ==
  /\ maxSize >= 2 /\ run.ok /\ Len(run.keys) = maxSize + 1
  /\ \A k \in DOMAIN data : Fresh(data[k].data)

\* C7: the entries of the cached cities stand in the list in the order of their
\* last Lookup hit or Insert, latest first, and a city that an Insert puts out of
\* the cache is the least recently touched of the cached cities.
Pos(l, e) == CHOOSE i \in 1..Len(l) : l[i] = e
TouchPos(k) == CHOOSE i \in 1..Len(touched) : touched[i] = k

OrderedByTouch ==
  \A x, y \in DOMAIN data :
    (data[x] \in Range(orderedList) /\ data[y] \in Range(orderedList)) =>
      (Pos(orderedList, data[x]) < Pos(orderedList, data[y]) <=> TouchPos(x) < TouchPos(y))

LeastRecentlyTouched(x) ==
  x \in DOMAIN data /\ \A y \in DOMAIN data : TouchPos(y) <= TouchPos(x)

RecencyPromotion ==
  [][/\ OrderedByTouch'
     /\ \A k \in Cities :
          Insert(k) =>
            \A x \in (DOMAIN data) \ (DOMAIN data') : LeastRecentlyTouched(x)]_vars

\* C8: an Insert of a city that is already in the map leaves the size of the map
\* and the length of the list as they were, and leaves that city as one entry,
\* at the head of the list.
OverwriteSemantics ==
  [][\A k \in Cities :
       (k \in DOMAIN data /\ Insert(k)) =>
         /\ Cardinality(DOMAIN data') = Size
         /\ Len(orderedList') = Len(orderedList)
         /\ orderedList'[1].city = k
         /\ Cardinality({i \in 1..Len(orderedList') : orderedList'[i].city = k}) = 1]_vars

\* C9: a Lookup of a city that is not in the map returns not-found and leaves the
\* map and the list exactly as they were.
IdempotentMiss ==
  [][\A k \in Cities :
       (k \notin DOMAIN data /\ Lookup(k)) =>
         /\ ~ret'.found /\ ret'.data = ZeroData
         /\ data' = data
         /\ orderedList' = orderedList]_vars

\* a Lookup has just missed a city that was absent, in a cache that holds another
MissWitness ==
  /\ ret.op = "Lookup" /\ ~ret.had /\ ~ret.found
  /\ Len(orderedList) >= 1 /\ Size >= 1

\* C10: when the handlers of the N requests so far have all returned, the
\* requests were for N distinct cities, each was looked up (a miss) and inserted,
\* and N <= maxSize, the cache ends with exactly N entries and the bijection holds.
DisjointCallers ==
  /\ \A p \in Procs : pc[p] = "idle"
  /\ run.ok
  /\ Len(run.keys) = reqs
  /\ Len(run.keys) <= maxSize

ConcurrentDisjoint ==
  DisjointCallers =>
    /\ Size = Len(run.keys)
    /\ Len(orderedList) = Len(run.keys)
    /\ DOMAIN data = Range(run.keys)
    /\ Bijection

\* as many requests as can run at a time have returned, each with a city of its own
ConcurrentWitness ==
  /\ DisjointCallers
  /\ Len(run.keys) = NumProcs

\* C11: a handler whose fetch fails returns at once, without a call of
\* updateCache (it never asks for the lock), and the step leaves the map and the
\* list as they are.
NoPoisoning ==
  [][\A p \in Procs :
       FetchFail(p) =>
         /\ pc'[p] = "idle"
         /\ data' = data /\ orderedList' = orderedList /\ mu' = mu]_vars

\* every request so far has returned, none found its city in the map, and fewer
\* cities were inserted than requests made: a fetch has failed, in a cache that
\* holds an entry of another request
NoPoisoningWitness ==
  /\ \A p \in Procs : pc[p] = "idle"
  /\ run.ok /\ reqs > Len(run.keys)
  /\ Size >= 1

\* C12: under fair scheduling every call of getCachedWeatherData and every call
\* of updateCache that a handler begins returns, and the handler then holds the
\* lock no longer.
InLookup(p) == pc[p] \in {"rlock", "read", "move", "check", "remove", "delete", "runlock"}

InInsert(p) == pc[p] \in {"wlock", "wwait", "update", "wunlock"}

Returned(p) ==
  /\ pc[p] \in {"fetch", "idle"}
  /\ p \notin mu.readers /\ mu.writer # p

Progress ==
  \A p \in Procs : (InLookup(p) \/ InInsert(p)) ~> Returned(p)

\* C13: an Insert takes another city out of the map only when the map is full
\* (it holds maxSize entries, or more) and the inserted city is not in it; it then
\* takes out exactly the city of the back element, fresh or expired, and one
\* element leaves the list as one enters; in every other case no city leaves.
Evicted == (DOMAIN data) \ (DOMAIN data')

EvictionCondition ==
  [][\A k \in Cities :
       Insert(k) =>
         IF Size >= maxSize /\ k \notin DOMAIN data /\ Len(orderedList) > 0
           THEN /\ Evicted = {Back(orderedList).city}
                /\ Len(orderedList') = Len(orderedList)
           ELSE Evicted = {}]_vars

\* C14: the entry that updateCache puts into the map carries the time of the
\* call of updateCache: its age is zero when the call is done.
InsertTimestamp ==
  [][\A p \in Procs :
       (pc[p] = "update" /\ Update(p)) => data'[city[p]].data.age = 0]_vars

\* C15: a tick of the clock leaves the cities of the map and of the list as they
\* are, and a city leaves the map only in a Lookup of that city that finds its
\* entry expired, or in an Insert into a full cache that evicts its entry as
\* the back element.
TimeAlone ==
  /\ DOMAIN data' = DOMAIN data
  /\ CitiesOf(orderedList') = CitiesOf(orderedList)
  /\ Ids(orderedList') = Ids(orderedList)

EvictedAsTail(x) ==
  /\ \E k \in Cities : Insert(k)
  /\ Size >= maxSize
  /\ Back(orderedList) = data[x]

NoProactiveSweep ==
  [][/\ Tick => TimeAlone
     /\ \A x \in Evicted :
          \/ ~Fresh(data[x].data) /\ Lookup(x)
          \/ EvictedAsTail(x)]_vars

\* the first half alone: what the passage of time does
NoSweepByTime == [][Tick => TimeAlone]_vars

\* C16: a handler that is in its fetch holds neither the read lock nor the write
\* lock, and a handler that has begun updateCache (from its call of Lock on) has
\* the result of its fetch in hand.
FetchOutsideLock ==
  \A p \in Procs :
    /\ pc[p] = "fetch" => (p \notin mu.readers /\ mu.writer # p)
    /\ InInsert(p) => newData[p].City = city[p]
    /\ (InLookup(p) \/ pc[p] = "fetch") => newData[p] = ZeroData

\* a handler is in its fetch while another one holds the lock
FetchWitness ==
  \E p, q \in Procs :
    /\ p # q /\ pc[p] = "fetch"
    /\ (mu.writer = q \/ q \in mu.readers)

\* C17: on a cache constructed with maxSize = 0, after every Insert the map and
\* the list are both empty.
DegenerateCapacity ==
  (maxSize = 0 /\ ret.op = "Insert") => (Size = 0 /\ Len(orderedList) = 0)

\* C18: a city whose latest Insert put in the data v, whose entry has since not
\* been evicted as the back element, and whose v is younger than the expiry, is
\* found by a Lookup, which returns v.
ReadLatestWrite ==
  \A k \in DOMAIN latest :
    LET r == getCachedWeatherData(Cache(data, orderedList), k)
    IN r.found /\ r.data = CityWeatherData(k, latest[k])

\* C19: a handler goes from its Lookup to the fetch exactly when the Lookup
\* returned not-found, and returns at once when it returned found; it begins
\* updateCache only out of a fetch that gave it the data of its city; when
\* updateCache is done the city is in the map, its entry at the front of the
\* list; and after updateCache the handler returns, so it inserts once.
Left(p, at) == pc[p] = at /\ pc'[p] \notin {at, "crashed"}

Came(p, at) == pc'[p] = at /\ pc[p] # at

MissPath ==
  [][\A p \in Procs :
       /\ Left(p, "runlock") => pc'[p] = IF found[p] THEN "idle" ELSE "fetch"
       /\ Came(p, "fetch") => (pc[p] = "runlock" /\ ~found[p])
       /\ Came(p, "wlock") => (pc[p] = "fetch" /\ newData'[p].City = city[p])
       /\ Came(p, "update") => pc[p] = "wwait"
       /\ Left(p, "update") =>
            /\ pc'[p] = "wunlock"
            /\ city[p] \in DOMAIN data'
            /\ orderedList'[1] = data'[city[p]]
            /\ orderedList'[1].city = city[p]
       /\ Left(p, "wunlock") => pc'[p] = "idle"]_vars

\* the last request missed a city, fetched and has just inserted it, into a cache
\* that held another request's entry
MissPathWitness ==
  \E p \in Procs :
    /\ pc[p] = "wunlock" /\ reqs = MaxReqs
    /\ Len(orderedList) >= 2
    /\ orderedList[1] = data[city[p]]

====
